---- MODULE Spec2Model ----
(***************************************************************************)
(* E-VRP: the greedy constructive heuristic, the four neighbourhood        *)
(* generators, local_search and the metaheuristic driver of                *)
(* src/heuristic.py, over the Route / Solution model of the specification  *)
(* (solution.py is not part of the sources; its operations are modelled    *)
(* from spec.md sections 4.3-4.5).                                         *)
(*                                                                         *)
(* Nodes are abstracted to names; a node's role is TypeOf(node).  The      *)
(* path cache is complete (spec.md section 6: every point of interest is   *)
(* reachable), so a cache record is the pair (time, energy) of the         *)
(* greenest path between two distinct points of interest.                  *)
(***************************************************************************)
EXTENDS Integers, Sequences, FiniteSets, TLC

VARIABLES
    inst,          \* the problem instance: cache metrics and configuration
    pc,            \* control position of the running operation
    customer,      \* GreedyHeuristic._customer: pending customers (a list)
    temp_route,    \* GreedyHeuristic._temp_route: the one Route object
    sol_routes,    \* sol.routes of create_feasible_solution: references
    current_node,  \* local current_node of create_feasible_route
    store,         \* the Solution objects: slot -> list of routes
    gen,           \* the locals of the running neighbourhood generator
    cand,          \* the Solution just yielded, as the consumer reads it
    vns,           \* the locals of metaheuristic and local_search
    hist,          \* history of the run (what the claims speak about)
    cache,         \* CachePaths.__cache: the list of cache records
    build,         \* the locals of CachePaths.__init__
    path           \* a Path: its node list, and the last call made on it

greedy_vars == <<customer, temp_route, sol_routes, current_node>>
search_vars == <<store, gen, cand, vns, hist>>
graph_vars == <<cache, build, path>>
vars == <<inst, pc, customer, temp_route, sol_routes, current_node,
          store, gen, cand, vns, hist, cache, build, path>>

----------------------------------------------------------------------------
(* Bounds of the model. *)
MaxSlow == 1       \* at most this many cache records with a long time
MaxSteep == 1      \* at most this many cache records with a high energy

----------------------------------------------------------------------------
(* The road graph's points of interest. *)
Depot == "D"
Customers == {"c1", "c2"}
Stations == {"s"}
POI == {Depot} \cup Customers \cup Stations
None == "None"

\* graph.nodes_iter(): the order in which the cache records were added
NodeOrder == <<"D", "c1", "c2", "s">>

TypeOf(n) ==
    IF n = Depot THEN "depot"
    ELSE IF n \in Customers THEN "customer"
    ELSE IF n \in Stations THEN "station"
    ELSE ""

\* the ordered pairs the cache holds a record for (no self-pairs)
CachePairs == {p \in POI \X POI : p[1] # p[2]}

SmallSubsets(S, n) == {T \in SUBSET S : Cardinality(T) <= n}

\* The instances: greenest-path time and energy of every cache record, and
\* the configuration (battery capacity, critical threshold, max route time).
Instances ==
    {[time      |-> [p \in CachePairs |-> IF p \in slow THEN 3 ELSE 1],
      energy    |-> [p \in CachePairs |-> IF p \in steep THEN 2 ELSE 1],
      capacity  |-> cap,
      threshold |-> 1,
      time_limit |-> lim] :
        slow \in SmallSubsets(CachePairs, MaxSlow),
        steep \in SmallSubsets(CachePairs, MaxSteep),
        cap \in {4, 5},
        lim \in {3, 5}}

Min(a, b) == IF a < b THEN a ELSE b

----------------------------------------------------------------------------
(* Route (spec.md 4.3, 4.4).  A Route is its list _paths; a path is the    *)
(* pair <<source, destination>> of a cache record; the first path leaves   *)
(* the depot.                                                              *)

\* the last node of every path: route._paths[i].last_node()
Stops(route) == [i \in 1..Len(route) |-> route[i][2]]

\* the paths that visit the given stops in order, starting at the depot
Paths(stops) ==
    [i \in 1..Len(stops) |-> <<IF i = 1 THEN Depot ELSE stops[i - 1], stops[i]>>]

\* Route.last_node()
LastNode(route) == IF route = <<>> THEN None ELSE route[Len(route)][2]

\* Battery.consume / Battery.recharge and the running time along the paths
\* from position i on: "ok", or the first violation met.
RECURSIVE Replay(_, _, _, _)
Replay(route, i, charge, t) ==
    IF i > Len(route) THEN "ok"
    ELSE LET p == route[i]
         IN  IF p \notin DOMAIN inst.time THEN "nopath"
             ELSE LET c == Min(inst.capacity, charge - inst.energy[p])
                      tt == t + inst.time[p]
                  IN  IF c < inst.threshold THEN "battery"
                      ELSE IF tt > inst.time_limit THEN "time"
                      ELSE Replay(route, i + 1,
                                  IF TypeOf(p[2]) = "station"
                                  THEN inst.capacity ELSE c,
                                  tt)

Validate(route) == Replay(route, 1, inst.capacity, 0)

RouteFeasible(route) == Validate(route) = "ok"

RECURSIVE SumOver(_, _)
SumOver(route, label) ==
    IF route = <<>> THEN 0
    ELSE (IF route[1] \in DOMAIN inst[label] THEN inst[label][route[1]] ELSE 0)
         + SumOver(Tail(route), label)

RouteTime(route) == SumOver(route, "time")
RouteEnergy(route) == SumOver(route, "energy")

\* Route.append(node): the route extended by the greenest path from its
\* last node (the depot for an empty route) to node
Appended(route, node) ==
    Append(route, <<IF route = <<>> THEN Depot ELSE LastNode(route), node>>)

\* "ok", "battery" (BatteryCriticalException), "time"
\* (MaximumTimeException) or "nopath" (no cache record)
AppendOutcome(route, node) == Validate(Appended(route, node))

----------------------------------------------------------------------------
(* GreedyHeuristic (src/heuristic.py 40-142). *)

\* list.remove(x): drop the first occurrence
RECURSIVE ListRemove(_, _)
ListRemove(list, x) ==
    IF list = <<>> THEN <<>>
    ELSE IF Head(list) = x THEN Tail(list)
    ELSE <<Head(list)>> \o ListRemove(Tail(list), x)

InList(list, x) == \E i \in 1..Len(list) : list[i] = x

\* cache.source_iterator(src): the destinations of src's records, in order
SourceIterator(src) ==
    SelectSeq(NodeOrder, LAMBDA d : <<src, d>> \in DOMAIN inst.time)

\* find_nearest: scan the records, keep the first with the least time
RECURSIVE FindNearestScan(_, _, _, _, _, _)
FindNearestScan(dests, src, type_to_find, pending, min_time, min_node) ==
    IF dests = <<>> THEN min_node
    ELSE LET dest == Head(dests)
             green_time == inst.time[<<src, dest>>]
             hit == IF type_to_find = "customer"
                    THEN /\ TypeOf(dest) = type_to_find
                         /\ InList(pending, dest)
                         /\ (min_node = None \/ green_time < min_time)
                    ELSE /\ TypeOf(dest) = type_to_find
                         /\ (min_node = None \/ green_time < min_time)
         IN  IF hit
             THEN FindNearestScan(Tail(dests), src, type_to_find, pending,
                                  green_time, dest)
             ELSE FindNearestScan(Tail(dests), src, type_to_find, pending,
                                  min_time, min_node)

\* the search ignores which customers are pending
FindNearestOfAll(current, type_to_find, pending) ==
    FindNearestScan(SourceIterator(current), current, type_to_find,
                    SelectSeq(NodeOrder, LAMBDA n : TypeOf(n) = "customer"),
                    0, None)

FindNearest(current, type_to_find, pending) ==
    FindNearestScan(SourceIterator(current), current, type_to_find, pending,
                    0, None)

\* the pending customer listed last, whatever its distance
NextDestLastPending ==
    IF Len(customer) = 0 THEN Depot ELSE customer[Len(customer)]

\* lines 67-71: the next destination of create_feasible_route
NextDest ==
    IF Len(customer) = 0 THEN Depot
    ELSE FindNearest(current_node, "customer", customer)

\* sol.routes holds references to the one object self._temp_route
RouteOf(ref) == temp_route
SolRoutes == [i \in 1..Len(sol_routes) |-> RouteOf(sol_routes[i])]

\* the nodes visited by a list of routes
NodesOfRoutes(routes) ==
    UNION {{routes[i][k][2] : k \in 1..Len(routes[i])} : i \in 1..Len(routes)}

\* Solution.missing_customers()
MissingCustomers(routes) == Customers \ NodesOfRoutes(routes)

\* a removal that compares the node's type, not the node: every pending
\* customer matches
CustomerRemoveByType(list, dest) ==
    SelectSeq(list, LAMBDA n : TypeOf(n) # TypeOf(dest))

\* line 90: self._customer.remove(dest)
CustomerRemove(list, dest) == ListRemove(list, dest)

\* lines 91-93: create_feasible_route returns when the depot was appended
\* (it is in no customer list, so remove raised ValueError) and no customer
\* is pending
RouteDone(dest, list) == ~InList(list, dest) /\ dest = Depot /\ Len(list) = 0

GreedyInit ==
    /\ cache = <<>>
    /\ build = <<>>
    /\ path = <<>>
    /\ inst \in Instances
    /\ pc = "solution_loop"
    /\ customer = SelectSeq(NodeOrder, LAMBDA n : TypeOf(n) = "customer")
    /\ temp_route = <<>>
    /\ sol_routes = <<>>
    /\ current_node = None
    /\ store = <<>>
    /\ gen = <<>>
    /\ cand = <<>>
    /\ vns = <<>>
    /\ hist = <<>>

\* create_feasible_route is entered without current_node = self._depot
EnterRouteKeepsNode ==
    /\ pc = "solution_loop"
    /\ customer # <<>>
    /\ pc' = "route_loop"
    /\ UNCHANGED <<inst, graph_vars, customer, temp_route, sol_routes>>
    /\ UNCHANGED current_node
    /\ UNCHANGED search_vars

\* lines 57-58, 65: customers are pending, create_feasible_route is entered
EnterRoute ==
    /\ pc = "solution_loop"
    /\ customer # <<>>
    /\ current_node' = Depot
    /\ pc' = "route_loop"
    /\ UNCHANGED <<inst, graph_vars, customer, temp_route, sol_routes>>
    /\ UNCHANGED search_vars

\* lines 60-62: no customer is pending, the final consistency check
FinalCheck ==
    /\ pc = "solution_loop"
    /\ customer = <<>>
    /\ pc' = IF MissingCustomers(SolRoutes) = {} THEN "returned"
             ELSE "AssertionError"
    /\ UNCHANGED <<inst, graph_vars, customer, temp_route, sol_routes, current_node>>
    /\ UNCHANGED search_vars

\* lines 66-73, 87-96: the append succeeds; the loop goes on, or the route
\* is complete and line 59 adds it to sol.routes
AppendSucceeds ==
    /\ pc = "route_loop"
    /\ LET dest == NextDest
       IN  /\ AppendOutcome(temp_route, dest) = "ok"
           /\ temp_route' = Appended(temp_route, dest)
           /\ IF InList(customer, dest)
              THEN /\ customer' = CustomerRemove(customer, dest)
                   /\ current_node' = dest
                   /\ pc' = "route_loop"
                   /\ UNCHANGED sol_routes
              ELSE IF RouteDone(dest, customer)
              THEN /\ sol_routes' = Append(sol_routes, "_temp_route")
                   /\ pc' = "solution_loop"
                   /\ UNCHANGED <<customer, current_node>>
              ELSE /\ pc' = "ValueError"
                   /\ UNCHANGED <<customer, current_node, sol_routes>>
    /\ UNCHANGED <<inst, graph_vars>>
    /\ UNCHANGED search_vars

\* lines 74-77: BatteryCriticalException is caught and the handler is
\* called as self.handle_insufficient_energy(self._temp_route); the method
\* is declared (line 112) with the single parameter self, so the call
\* raises TypeError before the handler's body runs, and the TypeError
\* leaves create_feasible_route and create_feasible_solution.
AppendBatteryCritical ==
    /\ pc = "route_loop"
    /\ AppendOutcome(temp_route, NextDest) = "battery"
    /\ pc' = "TypeError"
    /\ UNCHANGED <<inst, graph_vars, customer, temp_route, sol_routes, current_node>>
    /\ UNCHANGED search_vars

\* the handler returns without closing the route: the route goes to
\* sol.routes as it is
AppendMaximumTimeUnclosed ==
    /\ pc = "route_loop"
    /\ AppendOutcome(temp_route, NextDest) = "time"
    /\ sol_routes' = Append(sol_routes, "_temp_route")
    /\ pc' = "solution_loop"
    /\ UNCHANGED <<inst, graph_vars, customer, temp_route, current_node>>
    /\ UNCHANGED search_vars

\* lines 78-82: MaximumTimeException is caught and the handler is called as
\* self.handle_max_time_exceeded(self._temp_route); the method is declared
\* (line 98) with the single parameter self: TypeError, as above.
AppendMaximumTime ==
    /\ pc = "route_loop"
    /\ AppendOutcome(temp_route, NextDest) = "time"
    /\ pc' = "TypeError"
    /\ UNCHANGED <<inst, graph_vars, customer, temp_route, sol_routes, current_node>>
    /\ UNCHANGED search_vars

GreedyNext ==
    \/ EnterRoute
    \/ FinalCheck
    \/ AppendSucceeds
    \/ AppendBatteryCritical
    \/ AppendMaximumTime

Spec == GreedyInit /\ [][GreedyNext]_vars

----------------------------------------------------------------------------
(* Claims about the greedy heuristic, checked under Spec. *)

\* the battery charge after each path of the route, from a full battery
RECURSIVE ChargeAfter(_, _)
ChargeAfter(route, i) ==
    IF i = 0 THEN inst.capacity
    ELSE IF TypeOf(route[i][2]) = "station" THEN inst.capacity
    ELSE Min(inst.capacity,
             ChargeAfter(route, i - 1) - inst.energy[route[i]])

\* the charge on arrival at the end of path i (before any recharge there)
ChargeOnArrival(route, i) ==
    Min(inst.capacity, ChargeAfter(route, i - 1) - inst.energy[route[i]])

\* consecutive paths are glued end to start and every path is a cache record
WellFormed(route) ==
    /\ \A i \in 1..Len(route) : route[i] \in CachePairs
    /\ \A i \in 1..(Len(route) - 1) : route[i][2] = route[i + 1][1]

StartsAndEndsAtDepot(route) ==
    /\ route # <<>>
    /\ route[1][1] = Depot
    /\ LastNode(route) = Depot

WithinLimits(route) ==
    /\ WellFormed(route)
    /\ RouteTime(route) <= inst.time_limit
    /\ \A i \in 1..Len(route) : ChargeOnArrival(route, i) >= inst.threshold

\* C2: whenever create_feasible_solution returns a solution, every route
\* of it starts at the depot, ends at the depot, takes no more than the
\* maximum route time, and the battery charge is never below the critical
\* threshold along it.
C2_ReturnedRoutesFeasible ==
    pc = "returned" =>
        \A i \in 1..Len(sol_routes) :
            /\ StartsAndEndsAtDepot(SolRoutes[i])
            /\ WithinLimits(SolRoutes[i])

\* a run that returned a route through both customers
C2_Witness ==
    /\ pc = "returned"
    /\ Len(sol_routes) = 1
    /\ Len(temp_route) = 3

\* C3: whenever the pending list is empty and create_feasible_solution is
\* at its final check, the solution has no missing customer, and the
\* assertion never fails.
C3_FinalCheckPasses ==
    /\ (pc = "solution_loop" /\ customer = <<>>)
           => MissingCustomers(SolRoutes) = {}
    /\ pc # "AssertionError"

\* the final check is reached with a route in the solution
C3_Witness ==
    /\ pc = "solution_loop"
    /\ customer = <<>>
    /\ sol_routes # <<>>
    /\ Customers \subseteq NodesOfRoutes(SolRoutes)

C20_RecoveryOutcomes ==
    [][(/\ pc = "route_loop"
        /\ AppendOutcome(temp_route, NextDest) = "battery")
       => (\/ /\ pc' = "route_loop"
              /\ temp_route' # <<>>
              /\ temp_route' # temp_route
              /\ LastNode(temp_route') \in Stations
           \/ /\ pc' = "SystemExit"
              /\ temp_route' = <<>>)]_vars

\* create_feasible_solution runs on one thread that never waits: a step
\* that can be taken is taken
SpecLive == GreedyInit /\ [][GreedyNext]_vars /\ WF_vars(GreedyNext)

\* C24 (as claimed): create_feasible_solution eventually returns a
\* solution or ends with one of the two fatal conditions (SystemExit).
C24_ReturnsOrFatal == <>(pc \in {"returned", "SystemExit"})

\* the node the route under construction ends at
RouteTail == IF temp_route = <<>> THEN Depot ELSE LastNode(temp_route)

\* C27: whenever create_feasible_route is about to choose the next
\* customer with find_nearest, the node it searches from is the tail of
\* the route under construction, the depot for an empty route.
C27_SearchFromTail ==
    (pc = "route_loop" /\ customer # <<>>) => current_node = RouteTail

\* the second customer is searched from the first one
C27_Witness ==
    /\ pc = "route_loop"
    /\ customer # <<>>
    /\ temp_route # <<>>
    /\ current_node \in Customers

----------------------------------------------------------------------------
(* Route mutations (spec.md 4.4).  Each call validates the whole resulting *)
(* route and is atomic: on a violation it raises UnfeasibleRouteException  *)
(* and leaves the route as it was.  A result is [ok, route].               *)

\* position (from 1) of the first occurrence of x in seq, 0 when absent
RECURSIVE IndexFrom(_, _, _)
IndexFrom(seq, x, i) ==
    IF i > Len(seq) THEN 0
    ELSE IF seq[i] = x THEN i
    ELSE IndexFrom(seq, x, i + 1)

IndexOf(seq, x) == IndexFrom(seq, x, 1)

RemoveAt(seq, idx) ==
    SubSeq(seq, 1, idx - 1) \o SubSeq(seq, idx + 1, Len(seq))

\* list.insert(pos, x), pos counted from 0; a position past the end appends
InsertAt(seq, pos, x) ==
    LET at == Min(pos, Len(seq))
    IN  SubSeq(seq, 1, at) \o <<x>> \o SubSeq(seq, at + 1, Len(seq))

Committed(route, stops) ==
    LET new == Paths(stops)
    IN  IF Validate(new) = "ok"
        THEN [ok |-> TRUE, route |-> new]
        ELSE [ok |-> FALSE, route |-> route]

\* Route.remove(node): the first stop at node is dropped, its neighbours
\* are linked by the cached path between them
RouteRemove(route, node) ==
    LET stops == Stops(route)
        idx == IndexOf(stops, node)
    IN  Committed(route, IF idx = 0 THEN stops ELSE RemoveAt(stops, idx))

\* Route.insert(node, position)
RouteInsert(route, node, pos) ==
    Committed(route, InsertAt(Stops(route), pos, node))

\* Route.swap(node_a, node_b): the two nodes exchange their positions
RouteSwap(route, node_a, node_b) ==
    LET stops == Stops(route)
        ia == IndexOf(stops, node_a)
        ib == IndexOf(stops, node_b)
    IN  IF ia = 0 \/ ib = 0 THEN [ok |-> FALSE, route |-> route]
        ELSE Committed(route, [stops EXCEPT ![ia] = node_b, ![ib] = node_a])

----------------------------------------------------------------------------
(* Solution (spec.md 4.5): a list of routes. *)

RECURSIVE SumRoutes(_, _)
SumRoutes(routes, label) ==
    IF routes = <<>> THEN 0
    ELSE SumOver(Head(routes), label) + SumRoutes(Tail(routes), label)

SolutionTime(routes) == SumRoutes(routes, "time")
SolutionEnergy(routes) == SumRoutes(routes, "energy")

\* Solution.is_feasible()
IsFeasible(routes) ==
    /\ \A r \in 1..Len(routes) : RouteFeasible(routes[r])
    /\ MissingCustomers(routes) = {}

----------------------------------------------------------------------------
(* The neighbourhood generators (src/heuristic.py 145-269).  A generator   *)
(* is a coroutine: gen holds its locals and gen.at the loop it stands in.  *)
(* Indices count from 0 as in the code.  Slot "sol" of the store is the    *)
(* Solution passed to the generator, slot "mod_sol" the generator's own.   *)

Kinds == <<"2-opt", "3-opt", "swap", "move">>

\* mod_sol = sol: the generator works on the object it was given
ModSolSlotAliased == "sol"

\* lines 157, 200, 230, 248: mod_sol = copy.deepcopy(sol) is a new object
ModSolSlot == "mod_sol"

ModRoutes == store[ModSolSlot]

\* the object the local name `route` is bound to: a route of mod_sol, or
\* (three_opt_neighbors, line 217) a copy that belongs to no solution
LocalRoute == IF gen.attached THEN ModRoutes[gen.r + 1] ELSE gen.route

NoGen ==
    [kind |-> "", at |-> "", r |-> 0, a |-> 0, b |-> 0, i |-> 0, j |-> 0,
     k |-> 0, i_end |-> 0, j_end |-> 0, k_end |-> 0, b_end |-> 0,
     node_i |-> None, node_j |-> None, node_k |-> None,
     route |-> <<>>, route_bkp |-> <<>>, attached |-> TRUE]

\* the call neighborhood(sol): the deep copy, and the first loop is entered
StartedGen(kind) ==
    [NoGen EXCEPT !.kind = kind,
                  !.at = IF kind = "swap" THEN "for_a" ELSE "for_route"]

StoreAtStart(initial, sol) ==
    [s \in {"initial", "sol", "mod_sol"} |->
        IF s = "initial" THEN initial ELSE sol]

\* the history of one generator run: the solution passed in, the routes
\* before the last attempt, the number of yields and of skipped attempts
HistAtStart(h, sol) ==
    [h EXCEPT !.input = sol, !.before = sol, !.yields = 0, !.skips = 0,
              !.yielded = <<>>]

NoHist ==
    [input |-> <<>>, before |-> <<>>, yields |-> 0, skips |-> 0,
     yielded |-> <<>>, held |-> {}, improved |-> FALSE, stagnant |-> 0,
     found |-> FALSE, began |-> 0]

\* the store after the generator assigned to the object `route` names
StoreWithRoute(new) ==
    IF gen.attached THEN [store EXCEPT ![ModSolSlot][gen.r + 1] = new]
    ELSE store

GenWithRoute(g, new) ==
    IF gen.attached THEN g ELSE [g EXCEPT !.route = new]

Running(kinds) == pc = "gen" /\ gen.kind \in kinds

\* for route in mod_sol.routes  (lines 158, 201, 231)
GenForRoute ==
    /\ Running({"2-opt", "3-opt", "move"})
    /\ gen.at = "for_route"
    /\ IF gen.r < Len(ModRoutes)
       THEN LET len == Len(ModRoutes[gen.r + 1])
            IN  /\ gen' = [gen EXCEPT
                      !.attached = TRUE,
                      !.i = 0,
                      !.i_end = IF gen.kind = "3-opt" THEN len - 2
                                ELSE len - 1,
                      !.at = "for_i"]
                /\ pc' = pc
       ELSE /\ gen' = [gen EXCEPT !.at = "done"]
            /\ pc' = "exhausted"
    /\ UNCHANGED <<inst, graph_vars, greedy_vars, store, cand, vns, hist>>

\* the inner loop of 2-opt starts at the node itself: range(i, ...)
FirstJFromI(kind, i) == IF kind = "2-opt" THEN i ELSE i + 1

\* lines 161, 204, 234: for j in range(i + 1, ...)
FirstJ(kind, i) == i + 1

\* for i in range(...): node_i = route._paths[i].last_node()
\* (lines 159-160, 202-203, 232-233)
GenForI ==
    /\ Running({"2-opt", "3-opt", "move"})
    /\ gen.at = "for_i"
    /\ IF gen.i < gen.i_end
       THEN LET len == Len(LocalRoute)
            IN  IF gen.i >= len
                THEN /\ pc' = "IndexError"
                     /\ gen' = gen
                ELSE /\ gen' = [gen EXCEPT
                           !.node_i = LocalRoute[gen.i + 1][2],
                           !.j = FirstJ(gen.kind, gen.i),
                           !.j_end = IF gen.kind = "3-opt" THEN len - 1
                                     ELSE len,
                           !.at = "for_j"]
                     /\ pc' = pc
       ELSE /\ gen' = [gen EXCEPT !.r = gen.r + 1, !.at = "for_route"]
            /\ pc' = pc
    /\ UNCHANGED <<inst, graph_vars, greedy_vars, store, cand, vns, hist>>

\* for j in range(i + 1, ...)  (lines 161-162, 204-205, 234)
GenForJ ==
    /\ Running({"2-opt", "3-opt", "move"})
    /\ gen.at = "for_j"
    /\ IF gen.j < gen.j_end
       THEN LET len == Len(LocalRoute)
            IN  IF gen.kind = "move"
                THEN /\ gen' = [gen EXCEPT !.at = "attempt"]
                     /\ pc' = pc
                ELSE IF gen.j >= len
                THEN /\ pc' = "IndexError"
                     /\ gen' = gen
                ELSE /\ gen' = [gen EXCEPT
                           !.node_j = LocalRoute[gen.j + 1][2],
                           !.k = gen.j + 1,
                           !.k_end = len,
                           !.at = IF gen.kind = "3-opt" THEN "for_k"
                                  ELSE "attempt"]
                     /\ pc' = pc
       ELSE /\ gen' = [gen EXCEPT !.i = gen.i + 1, !.at = "for_i"]
            /\ pc' = pc
    /\ UNCHANGED <<inst, graph_vars, greedy_vars, store, cand, vns, hist>>

\* for k in range(j + 1, len(route._paths))  (lines 206-207)
GenForK ==
    /\ Running({"3-opt"})
    /\ gen.at = "for_k"
    /\ IF gen.k < gen.k_end
       THEN IF gen.k >= Len(LocalRoute)
            THEN /\ pc' = "IndexError"
                 /\ gen' = gen
            ELSE /\ gen' = [gen EXCEPT
                       !.node_k = LocalRoute[gen.k + 1][2],
                       !.at = "attempt"]
                 /\ pc' = pc
       ELSE /\ gen' = [gen EXCEPT !.j = gen.j + 1, !.at = "for_j"]
            /\ pc' = pc
    /\ UNCHANGED <<inst, graph_vars, greedy_vars, store, cand, vns, hist>>

\* what an attempt leaves: the generator suspended at `yield mod_sol`, or
\* (UnfeasibleRouteException caught) going on with its loops
AfterAttempt(ok, new_store, new_gen) ==
    /\ store' = new_store
    /\ gen' = new_gen
    /\ pc' = IF ok THEN "yielded" ELSE pc
    /\ cand' = IF ok THEN new_store[ModSolSlot] ELSE cand
    /\ hist' = [hist EXCEPT !.before = ModRoutes,
                            !.yields = IF ok THEN @ + 1 ELSE @,
                            !.skips = IF ok THEN @ ELSE @ + 1]

\* lines 163-170: route.swap(node_i, node_j)
TwoOptAttempt ==
    /\ Running({"2-opt"})
    /\ gen.at = "attempt"
    /\ LET res == RouteSwap(LocalRoute, gen.node_i, gen.node_j)
       IN  AfterAttempt(res.ok, StoreWithRoute(res.route),
                        [gen EXCEPT !.j = gen.j + 1, !.at = "for_j"])
    /\ UNCHANGED <<inst, graph_vars, greedy_vars, vns>>

\* lines 208-216: the backup, then the arrangement j - k - i
ThreeOptFirst ==
    /\ Running({"3-opt"})
    /\ gen.at = "attempt"
    /\ LET bkp == LocalRoute
           one == RouteSwap(bkp, gen.node_i, gen.node_j)
           two == IF one.ok THEN RouteSwap(one.route, gen.node_i, gen.node_k)
                  ELSE one
       IN  AfterAttempt(one.ok /\ two.ok, StoreWithRoute(two.route),
                        GenWithRoute([gen EXCEPT !.route_bkp = bkp,
                                                 !.at = "attempt2"],
                                     two.route))
    /\ UNCHANGED <<inst, graph_vars, greedy_vars, vns>>

\* lines 217-225: route = copy.deepcopy(route_bkp) binds the name `route`
\* to a new object, then the arrangement k - i - j on that object
ThreeOptSecond ==
    /\ Running({"3-opt"})
    /\ gen.at = "attempt2"
    /\ LET one == RouteSwap(gen.route_bkp, gen.node_i, gen.node_k)
           two == IF one.ok THEN RouteSwap(one.route, gen.node_j, gen.node_i)
                  ELSE one
       IN  AfterAttempt(one.ok /\ two.ok, store,
                        [gen EXCEPT !.attached = FALSE,
                                    !.route = two.route,
                                    !.k = gen.k + 1,
                                    !.at = "for_k"])
    /\ UNCHANGED <<inst, graph_vars, greedy_vars, vns>>

\* lines 235-243: route.remove(node_i); route.insert(node_i, j - 1)
MoveAttempt ==
    /\ Running({"move"})
    /\ gen.at = "attempt"
    /\ LET one == RouteRemove(LocalRoute, gen.node_i)
           two == IF one.ok THEN RouteInsert(one.route, gen.node_i, gen.j - 1)
                  ELSE one
       IN  AfterAttempt(one.ok /\ two.ok, StoreWithRoute(two.route),
                        [gen EXCEPT !.j = gen.j + 1, !.at = "for_j"])
    /\ UNCHANGED <<inst, graph_vars, greedy_vars, vns>>

\* for a in range(len(mod_sol.routes) - 1): route_a = ...  (lines 249-250)
SwapForA ==
    /\ Running({"swap"})
    /\ gen.at = "for_a"
    /\ IF gen.a < Len(ModRoutes) - 1
       THEN /\ gen' = [gen EXCEPT !.b = gen.a + 1,
                                  !.b_end = Len(ModRoutes),
                                  !.at = "for_b"]
            /\ pc' = pc
       ELSE /\ gen' = [gen EXCEPT !.at = "done"]
            /\ pc' = "exhausted"
    /\ UNCHANGED <<inst, graph_vars, greedy_vars, store, cand, vns, hist>>

\* for b in range(a + 1, len(mod_sol.routes)): route_b = ...  (251-252)
SwapForB ==
    /\ Running({"swap"})
    /\ gen.at = "for_b"
    /\ gen' = IF gen.b < gen.b_end
              THEN [gen EXCEPT !.i = 0,
                               !.i_end = Len(ModRoutes[gen.a + 1]),
                               !.at = "for_i"]
              ELSE [gen EXCEPT !.a = gen.a + 1, !.at = "for_a"]
    /\ UNCHANGED <<inst, graph_vars, pc, greedy_vars, store, cand, vns, hist>>

\* for i in range(len(route_a._paths)): node_i = ...  (lines 253-254)
SwapForI ==
    /\ Running({"swap"})
    /\ gen.at = "for_i"
    /\ IF gen.i < gen.i_end
       THEN IF gen.i >= Len(ModRoutes[gen.a + 1])
            THEN /\ pc' = "IndexError"
                 /\ gen' = gen
            ELSE /\ gen' = [gen EXCEPT
                       !.node_i = ModRoutes[gen.a + 1][gen.i + 1][2],
                       !.j = 0,
                       !.j_end = Len(ModRoutes[gen.b + 1]),
                       !.at = "for_j"]
                 /\ pc' = pc
       ELSE /\ gen' = [gen EXCEPT !.b = gen.b + 1, !.at = "for_b"]
            /\ pc' = pc
    /\ UNCHANGED <<inst, graph_vars, greedy_vars, store, cand, vns, hist>>

\* for j in range(len(route_b._paths)): node_j = ...  (lines 255-256)
SwapForJ ==
    /\ Running({"swap"})
    /\ gen.at = "for_j"
    /\ IF gen.j < gen.j_end
       THEN IF gen.j >= Len(ModRoutes[gen.b + 1])
            THEN /\ pc' = "IndexError"
                 /\ gen' = gen
            ELSE /\ gen' = [gen EXCEPT
                       !.node_j = ModRoutes[gen.b + 1][gen.j + 1][2],
                       !.at = "attempt"]
                 /\ pc' = pc
       ELSE /\ gen' = [gen EXCEPT !.i = gen.i + 1, !.at = "for_i"]
            /\ pc' = pc
    /\ UNCHANGED <<inst, graph_vars, greedy_vars, store, cand, vns, hist>>

\* lines 257-269: route_a.remove(node_i); route_b.remove(node_j);
\* route_a.insert(node_j, i); route_a.insert(node_i, j).  The calls made
\* before a failing one keep their effect.
SwapAttempt ==
    /\ Running({"swap"})
    /\ gen.at = "attempt"
    /\ LET ra == ModRoutes[gen.a + 1]
           rb == ModRoutes[gen.b + 1]
           one == RouteRemove(ra, gen.node_i)
           two == IF one.ok THEN RouteRemove(rb, gen.node_j)
                  ELSE [ok |-> FALSE, route |-> rb]
           three == IF two.ok THEN RouteInsert(one.route, gen.node_j, gen.i)
                    ELSE [ok |-> FALSE, route |-> one.route]
           four == IF three.ok
                   THEN RouteInsert(three.route, gen.node_i, gen.j)
                   ELSE [ok |-> FALSE, route |-> three.route]
       IN  AfterAttempt(four.ok,
                        [store EXCEPT ![ModSolSlot][gen.a + 1] = four.route,
                                      ![ModSolSlot][gen.b + 1] = two.route],
                        [gen EXCEPT !.j = gen.j + 1, !.at = "for_j"])
    /\ UNCHANGED <<inst, graph_vars, greedy_vars, vns>>

GenStep ==
    \/ GenForRoute
    \/ GenForI
    \/ GenForJ
    \/ GenForK
    \/ TwoOptAttempt
    \/ ThreeOptFirst
    \/ ThreeOptSecond
    \/ MoveAttempt
    \/ SwapForA
    \/ SwapForB
    \/ SwapForI
    \/ SwapForJ
    \/ SwapAttempt

----------------------------------------------------------------------------
(* One generator run on its own: for neighbor in neighborhood(sol).        *)

\* the stops of a route: customers and stations, each at most once
StopLists ==
    {s \in UNION {[1..n -> Customers \cup Stations] : n \in 1..3} :
        \A x, y \in 1..Len(s) : x # y => s[x] # s[y]}

ClosedRoutes == {Paths(Append(s, Depot)) : s \in StopLists}

\* solutions of one or two closed routes that visit every customer once
CoveringSolutions ==
    {sol \in UNION {[1..n -> ClosedRoutes] : n \in 1..2} :
        /\ \A c \in Customers :
              Cardinality({<<r, x>> \in (1..Len(sol)) \X (1..4) :
                             x <= Len(sol[r]) /\ sol[r][x][2] = c}) = 1
        /\ \A r \in 1..Len(sol) :
              \E x \in 1..Len(sol[r]) : sol[r][x][2] \in Customers}

GenInit ==
    /\ cache = <<>>
    /\ build = <<>>
    /\ path = <<>>
    /\ inst \in Instances
    /\ pc = "gen"
    /\ customer = <<>>
    /\ temp_route = <<>>
    /\ sol_routes = <<>>
    /\ current_node = None
    /\ \E sol \in CoveringSolutions :
          /\ IsFeasible(sol)
          /\ store = StoreAtStart(sol, sol)
          /\ hist = HistAtStart(NoHist, sol)
    /\ \E x \in 1..Len(Kinds) : gen = StartedGen(Kinds[x])
    /\ cand = <<>>
    /\ vns = <<>>

\* the consumer asks for the next candidate
Resume ==
    /\ pc = "yielded"
    /\ pc' = "gen"
    /\ UNCHANGED <<inst, graph_vars, greedy_vars, store, gen, cand, vns, hist>>

GenNext == GenStep \/ Resume

SpecGen == GenInit /\ [][GenNext]_vars


----------------------------------------------------------------------------
(* metaheuristic and local_search (src/heuristic.py 272-335).  Slot "sol"  *)
(* of the store is actual_solution, the object local_search passes to the  *)
(* generator; slot "initial" is initial_solution.                          *)

MaxIter == 4       \* the largest max_iter tried

\* <= in place of < on the energy
BetterOrEqual(neighbor, actual) ==
    \/ SolutionTime(neighbor) < SolutionTime(actual)
    \/ /\ SolutionTime(neighbor) = SolutionTime(actual)
       /\ SolutionEnergy(neighbor) <= SolutionEnergy(actual)

\* the energy compared first
BetterEnergyFirst(neighbor, actual) ==
    \/ SolutionEnergy(neighbor) < SolutionEnergy(actual)
    \/ /\ SolutionEnergy(neighbor) = SolutionEnergy(actual)
       /\ SolutionTime(neighbor) < SolutionTime(actual)

\* lines 322-324: the neighbour is strictly better than the actual solution
Better(neighbor, actual) ==
    \/ SolutionTime(neighbor) < SolutionTime(actual)
    \/ /\ SolutionTime(neighbor) = SolutionTime(actual)
       /\ SolutionEnergy(neighbor) < SolutionEnergy(actual)

\* line 304: the iteration that ends is the third after the best one
Stagnated(vns_it, best_it) == vns_it >= best_it + 3

Metrics(routes) == <<SolutionTime(routes), SolutionEnergy(routes)>>

\* local_search's first result: None, or the copy of a neighbour
NoResult == [found |-> FALSE, sol |-> <<>>]
Found(neighbor) == [found |-> TRUE, sol |-> neighbor]

\* the configuration of the search runs
VnsInstances == {x \in Instances : x.capacity = 5 /\ x.time_limit = 5}

VnsInit ==
    /\ cache = <<>>
    /\ build = <<>>
    /\ path = <<>>
    /\ inst \in VnsInstances
    /\ pc = "vns_iter"
    /\ customer = <<>>
    /\ temp_route = <<>>
    /\ sol_routes = <<>>
    /\ current_node = None
    /\ \E sol \in CoveringSolutions :
          /\ IsFeasible(sol)
          \* line 285: actual_solution = copy.deepcopy(initial_solution)
          /\ store = StoreAtStart(sol, sol)
          /\ hist = [NoHist EXCEPT !.held = {Metrics(sol)}]
    /\ gen = NoGen
    /\ cand = <<>>
    /\ \E m \in {1, MaxIter} :
          vns = [max_iter |-> m, next_it |-> 0, vns_it |-> 0, best_it |-> 0,
                 nb |-> 0, explored |-> 0, num_explored_solutions |-> 0,
                 result |-> NoResult, late |-> FALSE]

\* line 290: range(max_iter) is exhausted
VnsLoopEnds ==
    /\ pc = "vns_iter"
    /\ vns.next_it >= vns.max_iter
    /\ pc' = "vns_returned"
    /\ UNCHANGED <<inst, graph_vars, greedy_vars, store, gen, cand, vns, hist>>

\* line 292: the clock goes past t0 + max_time; vns.late is the value
\* time.time() > t0 + utility.CLI.args().max_time has from then on
ClockPassesDeadline ==
    /\ pc \in {"vns_iter", "vns_nb", "gen", "yielded", "exhausted"}
    /\ ~vns.late
    /\ vns' = [vns EXCEPT !.late = TRUE]
    /\ UNCHANGED <<inst, pc, graph_vars, greedy_vars, store, gen, cand, hist>>

\* lines 290-293: the next iteration starts after the deadline: break
VnsDeadlinePassed ==
    /\ pc = "vns_iter"
    /\ vns.next_it < vns.max_iter
    /\ vns.late
    /\ vns' = [vns EXCEPT !.vns_it = vns.next_it, !.next_it = @ + 1]
    /\ pc' = "vns_returned"
    /\ UNCHANGED <<inst, graph_vars, greedy_vars, store, gen, cand, hist>>

\* lines 290-296: the next iteration starts before the deadline
VnsIterBegins ==
    /\ pc = "vns_iter"
    /\ vns.next_it < vns.max_iter
    /\ ~vns.late
    /\ vns' = [vns EXCEPT !.vns_it = vns.next_it, !.next_it = @ + 1,
                          !.nb = 1]
    /\ hist' = [hist EXCEPT !.found = FALSE, !.began = @ + 1]
    /\ pc' = "vns_nb"
    /\ UNCHANGED <<inst, graph_vars, greedy_vars, store, gen, cand>>

\* lines 296-298, 318-319: local_search calls the next neighbourhood on
\* actual_solution; the generator starts with its deep copy
VnsCallsLocalSearch ==
    /\ pc = "vns_nb"
    /\ vns.nb <= Len(Kinds)
    /\ store' = [store EXCEPT !["mod_sol"] = store["sol"]]
    /\ gen' = StartedGen(Kinds[vns.nb])
    /\ vns' = [vns EXCEPT !.explored = 0]
    /\ hist' = HistAtStart(hist, store["sol"])
    /\ pc' = "gen"
    /\ UNCHANGED <<inst, graph_vars, greedy_vars, cand>>

\* what metaheuristic does with local_search's result (lines 298-303)
AfterLocalSearch(result, explored) ==
    /\ vns' = [vns EXCEPT
          !.result = result,
          !.explored = explored,
          !.best_it = IF result.found THEN vns.vns_it ELSE @,
          !.num_explored_solutions = @ + explored,
          !.nb = @ + 1]
    /\ store' = IF result.found THEN [store EXCEPT !["sol"] = result.sol]
                ELSE store
    /\ pc' = "vns_nb"

\* lines 319-324: a yielded neighbour that is not better; the loop goes on
LsKeepsLooking ==
    /\ pc = "yielded"
    /\ ~Better(cand, store["sol"])
    /\ vns' = [vns EXCEPT !.explored = @ + 1]
    /\ hist' = [hist EXCEPT !.yielded = Append(@, Metrics(cand))]
    /\ pc' = "gen"
    /\ UNCHANGED <<inst, graph_vars, greedy_vars, store, gen, cand>>

\* lines 319-332: a better neighbour passes the two assertions and its
\* copy is returned; metaheuristic adopts it
LsReturnsNeighbor ==
    /\ pc = "yielded"
    /\ Better(cand, store["sol"])
    /\ MissingCustomers(cand) = {}
    /\ IsFeasible(cand)
    /\ AfterLocalSearch(Found(cand), vns.explored + 1)
    /\ hist' = [hist EXCEPT !.yielded = Append(@, Metrics(cand)),
                            !.held = @ \cup {Metrics(cand)},
                            !.improved = TRUE,
                            !.found = TRUE]
    /\ UNCHANGED <<inst, graph_vars, greedy_vars, gen, cand>>

\* lines 330-331: a better neighbour fails an assertion
LsAssertionFails ==
    /\ pc = "yielded"
    /\ Better(cand, store["sol"])
    /\ ~(MissingCustomers(cand) = {} /\ IsFeasible(cand))
    /\ vns' = [vns EXCEPT !.explored = @ + 1]
    /\ hist' = [hist EXCEPT !.yielded = Append(@, Metrics(cand))]
    /\ pc' = "AssertionError"
    /\ UNCHANGED <<inst, graph_vars, greedy_vars, store, gen, cand>>

\* lines 333-335: the generator is exhausted, no better neighbour
LsReturnsNone ==
    /\ pc = "exhausted"
    /\ AfterLocalSearch(NoResult, vns.explored)
    /\ UNCHANGED <<inst, graph_vars, greedy_vars, gen, cand, hist>>

\* lines 296, 304-305: every neighbourhood was explored; stop after the
\* third iteration past the best one, else go on
VnsIterEnds ==
    /\ pc = "vns_nb"
    /\ vns.nb > Len(Kinds)
    /\ pc' = IF Stagnated(vns.vns_it, vns.best_it) THEN "vns_returned"
             ELSE "vns_iter"
    /\ hist' = [hist EXCEPT !.stagnant = IF hist.found THEN 0 ELSE @ + 1]
    /\ UNCHANGED <<inst, graph_vars, greedy_vars, store, gen, cand, vns>>

VnsNext ==
    \/ VnsLoopEnds
    \/ ClockPassesDeadline
    \/ VnsDeadlinePassed
    \/ VnsIterBegins
    \/ VnsCallsLocalSearch
    \/ GenStep
    \/ LsKeepsLooking
    \/ LsReturnsNeighbor
    \/ LsAssertionFails
    \/ LsReturnsNone
    \/ VnsIterEnds

SpecVNS == VnsInit /\ [][VnsNext]_vars


----------------------------------------------------------------------------
(* The road graph and CachePaths (src/graph.py 332-418).  In the runs of   *)
(* this section inst is the road graph: its nodes in nodes_iter() order    *)
(* and the attributes of its directed edges.  "x" is a plain road node.    *)

MaxEdges == 3      \* at most this many edges in a road graph
MaxAdds == 1       \* at most this many records added after construction

GraphNodes == <<"D", "c1", "s", "x">>

NodePairs == {p \in (POI \cup {"x"}) \X (POI \cup {"x"}) : p[1] # p[2]}

\* a short climb, or a long descent that gives energy back
EdgeData ==
    {[length |-> 1, time |-> 1, energy |-> 3],
     [length |-> 3, time |-> 2, energy |-> -1]}

Graphs ==
    {[nodes |-> GraphNodes, edge |-> f] :
        f \in UNION {[E -> EdgeData] :
                        E \in {T \in SmallSubsets(NodePairs, MaxEdges) :
                                 \A p \in T : p[1] # "c2" /\ p[2] # "c2"}}}

\* the edges in adjacency order
RECURSIVE EdgesFrom(_, _, _)
EdgesFrom(g, u, v) ==
    IF u > Len(g.nodes) THEN <<>>
    ELSE IF v > Len(g.nodes) THEN EdgesFrom(g, u + 1, 1)
    ELSE (IF <<g.nodes[u], g.nodes[v]>> \in DOMAIN g.edge
          THEN <<<<g.nodes[u], g.nodes[v]>>>> ELSE <<>>)
         \o EdgesFrom(g, u, v + 1)

EdgeSeq(g) == EdgesFrom(g, 1, 1)

\* networkx: the weight of an edge is data.get(weight, 1)
EdgeWeight(g, e, weight) ==
    IF weight \in DOMAIN g.edge[e] THEN g.edge[e][weight] ELSE 1

\* one pass over the edges: an edge that gives a strictly smaller distance
\* sets the distance and the predecessor of its head
RECURSIVE RelaxAll(_, _, _, _)
RelaxAll(g, weight, edges, t) ==
    IF edges = <<>> THEN t
    ELSE LET u == Head(edges)[1]
             v == Head(edges)[2]
         IN  IF /\ u \in DOMAIN t.dist
                /\ \/ v \notin DOMAIN t.dist
                   \/ t.dist[u] + EdgeWeight(g, Head(edges), weight) < t.dist[v]
             THEN RelaxAll(g, weight, Tail(edges),
                    [dist |-> (v :> t.dist[u]
                                    + EdgeWeight(g, Head(edges), weight))
                              @@ t.dist,
                     pred |-> (v :> u) @@ t.pred])
             ELSE RelaxAll(g, weight, Tail(edges), t)

RECURSIVE Rounds(_, _, _, _)
Rounds(g, weight, n, t) ==
    IF n = 0 THEN t
    ELSE Rounds(g, weight, n - 1, RelaxAll(g, weight, EdgeSeq(g), t))

\* single-source shortest paths: the distances and the predecessor map
\* (nx.bellman_ford returns the pair; the source's predecessor is None)
ShortestTree(g, src, weight) ==
    Rounds(g, weight, Len(g.nodes) - 1,
           [dist |-> (src :> 0), pred |-> (src :> None)])

\* a negative cycle can be reached from src: networkx raises
\* NetworkXUnbounded
Unbounded(g, src, weight) ==
    LET t == ShortestTree(g, src, weight)
    IN  RelaxAll(g, weight, EdgeSeq(g), t) # t

\* lines 377-383: the path from the source, unrolled from the predecessors
RECURSIVE Unroll(_, _)
Unroll(pred, node) ==
    IF node = None THEN <<>> ELSE Append(Unroll(pred, pred[node]), node)

\* the key is not an attribute of the edges
GreenestWeightMisspelt == "enrgy"

\* line 368: weight='energy'
GreenestWeight == "energy"

\* line 365: weight='lenght'
ShortestWeight == "lenght"

\* nx.single_source_dijkstra_path: a path to every node reached
DijkstraPaths(g, src) ==
    LET t == ShortestTree(g, src, ShortestWeight)
    IN  [n \in DOMAIN t.dist |-> Unroll(t.pred, n)]

\* line 354: type_whitelist
Whitelist == {"depot", "customer", "station"}

\* the points of interest of a graph
Whitelisted(g) ==
    {g.nodes[i] : i \in {x \in 1..Len(g.nodes) : TypeOf(g.nodes[x]) \in Whitelist}}

\* position in the cache of the record of the pair (src, dest), 0 if none
RECURSIVE RecordIndex(_, _, _, _)
RecordIndex(records, src, dest, i) ==
    IF i > Len(records) THEN 0
    ELSE IF records[i].src = src /\ records[i].dest = dest THEN i
    ELSE RecordIndex(records, src, dest, i + 1)

\* the record is appended whatever the cache holds
CacheAddAlways(records, record) == Append(records, record)

\* lines 341-352, CachePaths.__add: a self-pair is dropped, the record of
\* a pair already present is replaced, a new pair is appended
CacheAdd(records, record) ==
    IF record.src = record.dest THEN records
    ELSE LET idx == RecordIndex(records, record.src, record.dest, 1)
         IN  IF idx # 0 THEN [records EXCEPT ![idx] = record]
             ELSE Append(records, record)

NoBuild ==
    [src_i |-> 0, dest_i |-> 0, shortest_path |-> <<>>, g_pred |-> <<>>,
     g_energy |-> <<>>, adds |-> 0, replaced |-> FALSE, last |-> <<>>]

CacheInit ==
    /\ inst \in Graphs
    /\ pc = "for_src"
    /\ cache = <<>>
    /\ build = NoBuild
    /\ path = <<>>
    /\ customer = <<>>
    /\ temp_route = <<>>
    /\ sol_routes = <<>>
    /\ current_node = None
    /\ store = <<>>
    /\ gen = <<>>
    /\ cand = <<>>
    /\ vns = <<>>
    /\ hist = <<>>

\* lines 359-369: the next source; for a point of interest the two
\* single-source searches
CacheForSrc ==
    /\ pc = "for_src"
    /\ IF build.src_i >= Len(inst.nodes)
       THEN /\ pc' = "cache_built"
            /\ build' = build
       ELSE LET src == inst.nodes[build.src_i + 1]
            IN  IF TypeOf(src) \notin Whitelist
                THEN /\ build' = [build EXCEPT !.src_i = @ + 1]
                     /\ pc' = pc
                ELSE IF Unbounded(inst, src, GreenestWeight)
                THEN /\ pc' = "NetworkXUnbounded"
                     /\ build' = build
                ELSE LET t == ShortestTree(inst, src, GreenestWeight)
                     IN  /\ build' = [build EXCEPT
                               !.shortest_path = DijkstraPaths(inst, src),
                               !.g_pred = t.pred,
                               !.g_energy = t.dist,
                               !.dest_i = 0]
                         /\ pc' = "for_dest"
    /\ UNCHANGED <<inst, greedy_vars, search_vars, cache, path>>

\* lines 372-386: the next destination; a record is added for another point
\* of interest that both searches reached
CacheForDest ==
    /\ pc = "for_dest"
    /\ IF build.dest_i >= Len(inst.nodes)
       THEN /\ pc' = "for_src"
            /\ build' = [build EXCEPT !.src_i = @ + 1]
            /\ cache' = cache
       ELSE LET src == inst.nodes[build.src_i + 1]
                dest == inst.nodes[build.dest_i + 1]
            IN  /\ pc' = pc
                /\ build' = [build EXCEPT !.dest_i = @ + 1]
                /\ cache' =
                     IF /\ TypeOf(dest) \in Whitelist
                        /\ dest # src
                        /\ dest \in DOMAIN build.shortest_path
                        /\ dest \in DOMAIN build.g_energy
                     THEN CacheAdd(cache,
                            [src |-> src, dest |-> dest,
                             greenest |-> Unroll(build.g_pred, dest),
                             shortest |-> build.shortest_path[dest]])
                     ELSE cache
    /\ UNCHANGED <<inst, greedy_vars, search_vars, path>>

\* a further call of __add on the cache that was built
CacheAddAgain ==
    /\ pc = "cache_built"
    /\ build.adds < MaxAdds
    /\ \E src \in Whitelisted(inst), dest \in Whitelisted(inst) :
          LET record == [src |-> src, dest |-> dest,
                         greenest |-> <<src, dest>>,
                         shortest |-> <<src, dest>>]
          IN  /\ cache' = CacheAdd(cache, record)
              /\ build' = [build EXCEPT
                    !.adds = @ + 1,
                    !.last = record,
                    !.replaced =
                        RecordIndex(cache, src, dest, 1) # 0]
    /\ UNCHANGED <<inst, pc, greedy_vars, search_vars, path>>

CacheNext ==
    \/ CacheForSrc
    \/ CacheForDest
    \/ CacheAddAgain

SpecCache == CacheInit /\ [][CacheNext]_vars

----------------------------------------------------------------------------
(* Claims about the path cache, checked under SpecCache. *)

\* the sum of an edge attribute along a list of nodes
RECURSIVE FoldEdges(_, _, _)
FoldEdges(g, nodes, label) ==
    IF Len(nodes) < 2 THEN 0
    ELSE g.edge[<<nodes[1], nodes[2]>>][label] + FoldEdges(g, Tail(nodes), label)

\* the node list goes from src to dest along edges of the graph
IsPathOf(g, nodes, src, dest) ==
    /\ Len(nodes) >= 2
    /\ nodes[1] = src
    /\ nodes[Len(nodes)] = dest
    /\ \A x \in 1..(Len(nodes) - 1) : <<nodes[x], nodes[x + 1]>> \in DOMAIN g.edge

\* the paths of the graph from src to dest that visit no node twice
SimplePaths(g, src, dest) ==
    {p \in UNION {[1..n -> {g.nodes[x] : x \in 1..Len(g.nodes)}] :
                    n \in 2..Len(g.nodes)} :
        /\ IsPathOf(g, p, src, dest)
        /\ \A x, y \in 1..Len(p) : x # y => p[x] # p[y]}

Minimal(g, nodes, src, dest, label) ==
    \A q \in SimplePaths(g, src, dest) :
        FoldEdges(g, nodes, label) <= FoldEdges(g, q, label)

\* the cache as CachePaths.__init__ leaves it
Constructed == pc = "cache_built" /\ build.adds = 0

HasRecord(src, dest) == RecordIndex(cache, src, dest, 1) # 0

\* every pair of distinct points of interest joined by a path has a record
AllReachablePairsCached ==
    \A src \in Whitelisted(inst), dest \in Whitelisted(inst) :
        (src # dest /\ SimplePaths(inst, src, dest) # {})
            => HasRecord(src, dest)

\* C15 (as claimed): for every pair of distinct points of interest with the
\* destination reachable, the cached shortest path runs from the source to
\* the destination along edges of the graph and no path between them has
\* a smaller summed length.
C15_ShortestByLength ==
    Constructed =>
        /\ AllReachablePairsCached
        /\ \A x \in 1..Len(cache) :
              /\ IsPathOf(inst, cache[x].shortest, cache[x].src, cache[x].dest)
              /\ Minimal(inst, cache[x].shortest, cache[x].src,
                         cache[x].dest, "length")

\* C16: when the construction ends (no negative cycle was met), for every
\* pair of distinct points of interest with the destination reachable, the
\* cached greenest path runs from the source to the destination along
\* edges of the graph and no path between them has a smaller summed energy.
C16_GreenestByEnergy ==
    Constructed =>
        /\ \A src \in Whitelisted(inst), dest \in Whitelisted(inst) :
              (src # dest /\ SimplePaths(inst, src, dest) # {})
                  => RecordIndex(cache, src, dest, 1) # 0
        /\ \A x \in 1..Len(cache) :
              /\ IsPathOf(inst, cache[x].greenest, cache[x].src, cache[x].dest)
              /\ Minimal(inst, cache[x].greenest, cache[x].src,
                         cache[x].dest, "energy")

\* a greenest path over a descent that is longer than the direct edge
C16_Witness ==
    /\ Constructed
    /\ \E x \in 1..Len(cache) :
          /\ Len(cache[x].greenest) >= 3
          /\ <<cache[x].src, cache[x].dest>> \in DOMAIN inst.edge
          /\ FoldEdges(inst, cache[x].greenest, "energy") < 0

\* C17: the cache never holds two records of the same (source,
\* destination) pair nor a record of a self-pair, and a record added for a
\* pair is the one record the cache holds for it.
C17_OneRecordPerPair ==
    /\ \A x, y \in 1..Len(cache) :
          (cache[x].src = cache[y].src /\ cache[x].dest = cache[y].dest)
              => x = y
    /\ \A x \in 1..Len(cache) : cache[x].src # cache[x].dest
    /\ (pc = "cache_built" /\ build.adds > 0 /\ build.last.src # build.last.dest)
          => \E x \in 1..Len(cache) : cache[x] = build.last

\* a record was added for a pair the built cache already held
C17_Witness ==
    /\ pc = "cache_built"
    /\ build.adds > 0
    /\ build.replaced
    /\ Len(cache) >= 2

----------------------------------------------------------------------------
(* Path (src/graph.py 420-483).  A node of a path is <<coordinates, type>>; *)
(* the name of a graph node stands for its coordinates.                     *)

MaxPathLen == 3    \* append is not called on a path of this many nodes

\* the graphs of the Path runs: two edges between the depot and the
\* customer and one on to the station, each short or long
PathGraphs ==
    {g \in Graphs :
        DOMAIN g.edge = {<<"D", "c1">>, <<"c1", "D">>, <<"c1", "s">>}}

\* the types a caller passes to append: the node's own or none
TypesGiven(n) == {TypeOf(n), ""}

Coordinates(nodes) == [x \in 1..Len(nodes) |-> nodes[x][1]]

\* every edge the sum looks up exists
Joined(g, nodes) ==
    \A x \in 1..(Len(nodes) - 1) :
        <<nodes[x][1], nodes[x + 1][1]>> \in DOMAIN g.edge

RECURSIVE SumFrom(_, _, _, _, _)
SumFrom(g, nodes, label, i, last) ==
    IF i > last THEN 0
    ELSE g.edge[<<nodes[i][1], nodes[i + 1][1]>>][label]
         + SumFrom(g, nodes, label, i + 1, last)

\* the sum leaves out the last edge
SumOverLabelOneShort(g, nodes, label) ==
    IF ~Joined(g, nodes) THEN "KeyError"
    ELSE SumFrom(g, nodes, label, 1, Len(nodes) - 2)

\* lines 448-450, Path.__sum_over_label: for i, src in
\* enumerate(nodes[:-1]) the attribute of the edge to nodes[i + 1]; an
\* edge the graph does not have raises KeyError
SumOverLabel(g, nodes, label) ==
    IF ~Joined(g, nodes) THEN "KeyError"
    ELSE SumFrom(g, nodes, label, 1, Len(nodes) - 1)

\* lines 456-464 and 480-483: the three properties
PathEnergy(g, nodes) == SumOverLabel(g, nodes, "energy")
PathLength(g, nodes) == SumOverLabel(g, nodes, "length")
PathTime(g, nodes) == SumOverLabel(g, nodes, "time")

\* lines 466-470, Path.remove: the loop deletes from the list it iterates
\* over and goes on; after a deletion the iterator is one entry further
RECURSIVE RemoveScan(_, _, _)
RemoveScan(nodes, coor, index) ==
    IF index > Len(nodes) THEN nodes
    ELSE IF nodes[index][1] = coor
         THEN RemoveScan(RemoveAt(nodes, index), coor, index + 1)
         ELSE RemoveScan(nodes, coor, index + 1)

\* lines 472-478, Path.substitute: every matching entry is replaced, the
\* type is the one the graph has for the new node
SubstituteAll(nodes, old, new) ==
    [x \in 1..Len(nodes) |->
        IF nodes[x][1] = old THEN <<new, TypeOf(new)>> ELSE nodes[x]]

GraphNodeSet(g) == {g.nodes[x] : x \in 1..Len(g.nodes)}

\* line 428-433: Path(graph), an empty path
PathInit ==
    /\ inst \in PathGraphs
    /\ pc = "path"
    /\ path = [nodes |-> <<>>, prev |-> <<>>, op |-> "init", arg |-> None]
    /\ cache = <<>>
    /\ build = <<>>
    /\ customer = <<>>
    /\ temp_route = <<>>
    /\ sol_routes = <<>>
    /\ current_node = None
    /\ store = <<>>
    /\ gen = <<>>
    /\ cand = <<>>
    /\ vns = <<>>
    /\ hist = <<>>

\* lines 452-454
PathAppend ==
    /\ pc = "path"
    /\ Len(path.nodes) < MaxPathLen
    /\ \E n \in GraphNodeSet(inst) : \E type \in TypesGiven(n) :
          path' = [nodes |-> Append(path.nodes, <<n, type>>),
                   prev |-> path.nodes, op |-> "append", arg |-> n]
    /\ UNCHANGED <<inst, pc, greedy_vars, search_vars, cache, build>>

\* lines 466-470
PathRemove ==
    /\ pc = "path"
    /\ \E n \in GraphNodeSet(inst) :
          path' = [nodes |-> RemoveScan(path.nodes, n, 1),
                   prev |-> path.nodes, op |-> "remove", arg |-> n]
    /\ UNCHANGED <<inst, pc, greedy_vars, search_vars, cache, build>>

\* lines 472-478
PathSubstitute ==
    /\ pc = "path"
    /\ \E old \in GraphNodeSet(inst), new \in GraphNodeSet(inst) :
          path' = [nodes |-> SubstituteAll(path.nodes, old, new),
                   prev |-> path.nodes, op |-> "substitute", arg |-> old]
    /\ UNCHANGED <<inst, pc, greedy_vars, search_vars, cache, build>>

PathNext ==
    \/ PathAppend
    \/ PathRemove
    \/ PathSubstitute

SpecPath == PathInit /\ [][PathNext]_vars

----------------------------------------------------------------------------
(* Claims about Path, checked under SpecPath. *)

PathLabels == {"length", "time", "energy"}

\* C18: whenever the consecutive nodes of a path are joined by edges, each
\* of length, time and energy is the sum of that edge attribute over the
\* consecutive pairs, and it is 0 for a path of fewer than two nodes,
\* whatever appends, removes and substitutes led to the path.
C18_SumsOverConsecutivePairs ==
    (pc = "path" /\ Joined(inst, path.nodes)) =>
        /\ PathLength(inst, path.nodes)
             = FoldEdges(inst, Coordinates(path.nodes), "length")
        /\ PathTime(inst, path.nodes)
             = FoldEdges(inst, Coordinates(path.nodes), "time")
        /\ PathEnergy(inst, path.nodes)
             = FoldEdges(inst, Coordinates(path.nodes), "energy")
        /\ Len(path.nodes) < 2 =>
              \A label \in PathLabels :
                  SumOverLabel(inst, path.nodes, label) = 0

\* a substitute joined a path of three nodes whose three sums differ
C18_Witness ==
    /\ pc = "path"
    /\ path.op = "substitute"
    /\ path.nodes # path.prev
    /\ ~Joined(inst, path.prev)
    /\ Len(path.nodes) = 3
    /\ Joined(inst, path.nodes)
    /\ PathLength(inst, path.nodes) # PathTime(inst, path.nodes)
    /\ PathEnergy(inst, path.nodes) # PathTime(inst, path.nodes)

\* the list without its first entry of the given coordinates
RECURSIVE WithoutFirst(_, _)
WithoutFirst(nodes, coor) ==
    IF nodes = <<>> THEN <<>>
    ELSE IF Head(nodes)[1] = coor THEN Tail(nodes)
    ELSE <<Head(nodes)>> \o WithoutFirst(Tail(nodes), coor)

\* C19 (as claimed): Path.remove deletes exactly the first entry with the
\* given coordinates; later occurrences stay in place and a path without
\* the node is unchanged.
C19_RemoveDeletesFirstOnly ==
    (pc = "path" /\ path.op = "remove") =>
        path.nodes = WithoutFirst(path.prev, path.arg)

----------------------------------------------------------------------------
(* The greedy heuristic on the cache of a road graph: the scenario of      *)
(* spec.md 6 (depot D, customers c1 and c2, station s) and variations.     *)

\* the three roads of the scenario
ScenarioEdges ==
    (<<"D", "c1">> :> [length |-> 1000, time |-> 2, energy |-> 500])
    @@ (<<"c1", "c2">> :> [length |-> 1000, time |-> 3, energy |-> 700])
    @@ (<<"c2", "D">> :> [length |-> 1000, time |-> 2, energy |-> 600])

\* further roads a variation may have
ExtraEdges ==
    (<<"D", "c2">> :> [length |-> 1000, time |-> 1, energy |-> 900])
    @@ (<<"c1", "s">> :> [length |-> 1000, time |-> 1, energy |-> 100])
    @@ (<<"s", "D">> :> [length |-> 1000, time |-> 1, energy |-> 100])

ScenarioGraph == [nodes |-> NodeOrder, edge |-> ScenarioEdges]

ScenarioGraphs ==
    {[nodes |-> NodeOrder,
      edge |-> ScenarioEdges @@ [p \in E |-> ExtraEdges[p]]] :
        E \in SUBSET DOMAIN ExtraEdges}

\* lines 372-376: the pairs CachePaths.__init__ adds a record for
Cached(g) ==
    {p \in Whitelisted(g) \X Whitelisted(g) :
        /\ p[1] # p[2]
        /\ p[2] \in DOMAIN DijkstraPaths(g, p[1])
        /\ p[2] \in DOMAIN ShortestTree(g, p[1], GreenestWeight).dist}

\* lines 377-383: the greenest path of a record
GreenestPath(g, src, dest) ==
    Unroll(ShortestTree(g, src, GreenestWeight).pred, dest)

\* lines 434-435, Path.__init__: every node with the type the graph has
AsPath(coor_list) ==
    [x \in 1..Len(coor_list) |-> <<coor_list[x], TypeOf(coor_list[x])>>]

\* the instance the heuristic sees: time and energy of the greenest path
\* of every record, and the configuration
InstanceOf(g, cap, thr, lim) ==
    [time      |-> [p \in Cached(g) |->
                      PathTime(g, AsPath(GreenestPath(g, p[1], p[2])))],
     energy    |-> [p \in Cached(g) |->
                      PathEnergy(g, AsPath(GreenestPath(g, p[1], p[2])))],
     capacity  |-> cap,
     threshold |-> thr,
     time_limit |-> lim]

\* capacity 2000, critical threshold 200, maximum route time 20
ScenarioInstance == InstanceOf(ScenarioGraph, 2000, 200, 20)

ScenarioInstances ==
    {InstanceOf(g, cap, thr, lim) :
        g \in ScenarioGraphs,
        cap \in {1000, 2000, 2500},
        thr \in {200, 300},
        lim \in {5, 20}}

ScenarioInit ==
    /\ inst \in ScenarioInstances
    /\ pc = "solution_loop"
    /\ customer = SelectSeq(NodeOrder, LAMBDA n : TypeOf(n) = "customer")
    /\ temp_route = <<>>
    /\ sol_routes = <<>>
    /\ current_node = None
    /\ cache = <<>>
    /\ build = <<>>
    /\ path = <<>>
    /\ store = <<>>
    /\ gen = <<>>
    /\ cand = <<>>
    /\ vns = <<>>
    /\ hist = <<>>

SpecScenario == ScenarioInit /\ [][GreedyNext]_vars

\* the route D, c1, c2, D as a list of paths
ScenarioRoute == Paths(<<"c1", "c2", Depot>>)

\* C14: on the scenario instance the heuristic never stops on an
\* exception, the route under construction only ever grows along D, c1,
\* c2, D (no station, no node taken back), and the solution returned is
\* that one route, with energy 1800 and time 7.
C14_ScenarioOneRoute ==
    inst = ScenarioInstance =>
        /\ pc \in {"solution_loop", "route_loop", "returned"}
        /\ temp_route = SubSeq(ScenarioRoute, 1, Len(temp_route))
        /\ pc = "returned" =>
              /\ Len(SolRoutes) = 1
              /\ SolRoutes[1] = ScenarioRoute
              /\ RouteEnergy(SolRoutes[1]) = 1800
              /\ RouteTime(SolRoutes[1]) = 7

\* the heuristic returned on the scenario instance
C14_Witness ==
    /\ inst = ScenarioInstance
    /\ pc = "returned"
    /\ sol_routes # <<>>

----------------------------------------------------------------------------
(* find_nearest called on its own (src/heuristic.py 128-142): the current  *)
(* node, the pending customers and the cache are the inputs.               *)

\* self._customer: the customers in graph order, without those served
PendingLists == {<<"c1">>, <<"c2">>, <<"c1", "c2">>}

NearestInit ==
    /\ inst \in Instances \cup ScenarioInstances
    /\ pc = "find_nearest"
    /\ customer \in PendingLists
    /\ current_node \in {n \in POI : ~InList(customer, n)}
    /\ hist = [min_node |-> None]
    /\ temp_route = <<>>
    /\ sol_routes = <<>>
    /\ cache = <<>>
    /\ build = <<>>
    /\ path = <<>>
    /\ store = <<>>
    /\ gen = <<>>
    /\ cand = <<>>
    /\ vns = <<>>

\* line 70: dest = self.find_nearest(current_node, 'customer')
NearestCall ==
    /\ pc = "find_nearest"
    /\ hist' = [min_node |-> FindNearest(current_node, "customer", customer)]
    /\ pc' = "found"
    /\ UNCHANGED <<inst, graph_vars, greedy_vars, store, gen, cand, vns>>

NearestNext ==
    \/ NearestCall

SpecNearest == NearestInit /\ [][NearestNext]_vars

\* the pending customers that have a record from the current node
Reachable == {c \in Customers : /\ InList(customer, c)
                                /\ <<current_node, c>> \in DOMAIN inst.time}

----------------------------------------------------------------------------
(* Claims about the generators, checked under SpecGen. *)

\* C1 (as claimed): every candidate a generator yields has only feasible
\* routes and no missing customer.
C1_YieldedFeasibleComplete ==
    pc = "yielded" =>
        /\ \A r \in 1..Len(cand) : RouteFeasible(cand[r])
        /\ MissingCustomers(cand) = {}

\* C9: whatever the generator has done, the solution it was given is as it
\* was when the generator was called.
C9_InputUnchanged == store["sol"] = hist.input

\* a run with a yield and a skipped attempt that changed mod_sol
C9_Witness ==
    /\ pc = "exhausted"
    /\ hist.yields >= 1
    /\ hist.skips >= 1
    /\ store["mod_sol"] # store["sol"]

NodesOf(route) == {route[x][2] : x \in 1..Len(route)}

\* C10 (as claimed): a candidate yielded by the swap generator has node_j
\* in route a, node_i in route b, and both routes as long as before.
C10_SwapExchanges ==
    (pc = "yielded" /\ gen.kind = "swap") =>
        /\ gen.node_j \in NodesOf(cand[gen.a + 1])
        /\ gen.node_i \in NodesOf(cand[gen.b + 1])
        /\ Len(cand[gen.a + 1]) = Len(hist.before[gen.a + 1])
        /\ Len(cand[gen.b + 1]) = Len(hist.before[gen.b + 1])

\* the stops with positions i, j, k (from 0) holding a, b, c
Arranged(stops, i, j, k, a, b, c) ==
    [stops EXCEPT ![i + 1] = a, ![j + 1] = b, ![k + 1] = c]

\* C11 (as claimed): a candidate yielded by the 3-opt generator for the
\* triple i < j < k holds the route in the arrangement just tried, built
\* from the arrangement i-j-k the triple started with: (j,k,i) for the
\* first candidate of the triple, (k,i,j) for the second.
C11_ThreeOptArrangements ==
    (pc = "yielded" /\ gen.kind = "3-opt") =>
        LET base == Stops(gen.route_bkp)
            first == gen.at = "attempt2"
            i == gen.i
            j == gen.j
            k == IF first THEN gen.k ELSE gen.k - 1
            ni == base[i + 1]
            nj == base[j + 1]
            nk == base[k + 1]
        IN  Stops(cand[gen.r + 1]) =
                IF first THEN Arranged(base, i, j, k, nj, nk, ni)
                ELSE Arranged(base, i, j, k, nk, ni, nj)

\* C12 (as claimed): a candidate yielded by the move generator for the
\* node at position i has that node at a position later than i, the other
\* nodes of the route in their order.
C12_MoveToLaterPosition ==
    (pc = "yielded" /\ gen.kind = "move") =>
        LET before == Stops(hist.before[gen.r + 1])
            after == Stops(cand[gen.r + 1])
        IN  \E p \in (gen.i + 1)..(Len(before) - 1) :
                after = InsertAt(RemoveAt(before, gen.i + 1), p,
                                 before[gen.i + 1])

\* two routes, each depot - customer - depot
OneCustomerEach(sol) ==
    /\ Len(sol) = 2
    /\ \A r \in 1..2 : Len(sol[r]) = 2 /\ sol[r][1][2] \in Customers

DepotOnlyCloses(route) ==
    /\ route # <<>>
    /\ route[1][1] = Depot
    /\ LastNode(route) = Depot
    /\ \A x \in 1..(Len(route) - 1) : route[x][2] # Depot

\* C22 (as claimed): in every candidate a generator yields every route
\* starts at the depot, ends at the depot and has no depot in between.
C22_DepotStaysInPlace ==
    pc = "yielded" => \A r \in 1..Len(cand) : DepotOnlyCloses(cand[r])

\* C25 (as claimed): an attempt that is skipped because a route operation
\* raised UnfeasibleRouteException leaves the generator's working solution
\* as it was before the attempt.
C25_SkippedAttemptLeavesNoTrace ==
    [][(pc = "gen" /\ pc' = "gen" /\ hist'.skips = hist.skips + 1)
       => store'[ModSolSlot] = store[ModSolSlot]]_vars

\* the routes that differ from those of sol by one exchange of the nodes at
\* two positions of one route
OneExchangeFrom(sol) ==
    {[sol EXCEPT ![r] = Paths([Stops(sol[r]) EXCEPT
                                  ![i] = Stops(sol[r])[j],
                                  ![j] = Stops(sol[r])[i]])] :
        <<r, i, j>> \in {t \in (1..Len(sol)) \X (1..4) \X (1..4) :
                           t[2] < t[3] /\ t[3] <= Len(sol[t[1]])}}

\* C26 (as claimed, for 2-opt): every candidate the 2-opt generator
\* yields is its input solution with the nodes at two positions i < j of
\* one route exchanged; the exchanges of earlier candidates are not in it.
C26_OneMoveFromInput ==
    (pc = "yielded" /\ gen.kind = "2-opt") =>
        cand \in OneExchangeFrom(hist.input)

----------------------------------------------------------------------------
(* Claims about local_search and metaheuristic, checked under SpecVNS. *)

LexLess(m, n) == m[1] < n[1] \/ (m[1] = n[1] /\ m[2] < n[2])
LexLessEq(m, n) == m = n \/ LexLess(m, n)

\* local_search has just returned to metaheuristic
JustReturned == pc = "vns_nb" /\ vns.nb > 1

\* C5: a candidate local_search returns is lexicographically smaller in
\* (time, energy) than the solution local_search was given.
C5_ReturnedStrictlyBetter ==
    (JustReturned /\ vns.result.found) =>
        LexLess(Metrics(vns.result.sol), Metrics(hist.input))

\* a copy is returned that has the input's time and less energy
C5_Witness ==
    /\ JustReturned
    /\ vns.result.found
    /\ SolutionTime(vns.result.sol) = SolutionTime(hist.input)
    /\ SolutionEnergy(vns.result.sol) < SolutionEnergy(hist.input)

\* local_search has ended: it returned, or an exception left it
Ended == JustReturned \/ pc \in {"AssertionError", "IndexError"}

FirstBetter(yielded, input) ==
    IF \E x \in 1..Len(yielded) : LexLess(yielded[x], Metrics(input))
    THEN CHOOSE x \in 1..Len(yielded) :
            /\ LexLess(yielded[x], Metrics(input))
            /\ \A y \in 1..(x - 1) : ~LexLess(yielded[y], Metrics(input))
    ELSE 0

\* C6 (as claimed): local_search returns the first yielded candidate that
\* is strictly better than its input, and returns none exactly when no
\* yielded candidate is strictly better.
C6_ReturnsFirstBetter ==
    Ended =>
        LET first == FirstBetter(hist.yielded, hist.input)
        IN  IF first = 0
            THEN pc # "AssertionError" /\ (JustReturned => ~vns.result.found)
            ELSE /\ pc = "vns_nb"
                 /\ vns.result.found
                 /\ first = Len(hist.yielded)
                 /\ vns.result.sol = cand

\* C7: the current solution is never worse than a solution held before,
\* never worse than the initial one, and equal to it while no
\* neighbourhood has produced an improvement.
C7_NeverWorse ==
    /\ \A m \in hist.held : LexLessEq(Metrics(store["sol"]), m)
    /\ LexLessEq(Metrics(store["sol"]), Metrics(store["initial"]))
    /\ ~hist.improved => store["sol"] = store["initial"]

\* the search returns after two improvements
C7_Witness ==
    /\ pc = "vns_returned"
    /\ Cardinality(hist.held) >= 3
    /\ LexLess(Metrics(store["sol"]), Metrics(store["initial"]))

\* C8 (as claimed): no iteration begins once three consecutive iterations
\* have found no improvement.
C8_StopsAfterThreeStagnant ==
    ~(pc = "vns_nb" /\ vns.nb = 1 /\ hist.stagnant >= 3)

\* the states in which metaheuristic has ended
VnsEnded == {"vns_returned", "AssertionError"}

\* C23 (as claimed): an iteration that starts after the deadline explores
\* nothing and ends the search; an iteration that starts before it
\* explores all four neighbourhoods, whenever the deadline passes, so the
\* search ends only at the start of an iteration or once the fourth
\* neighbourhood of the iteration has been entered.
C23_DeadlineOncePerIteration ==
    [][/\ (pc = "vns_iter" /\ vns.next_it < vns.max_iter /\ vns.late)
          => pc' = "vns_returned"
       /\ (pc \notin VnsEnded /\ pc' \in VnsEnded)
          => (pc = "vns_iter" \/ vns.nb >= Len(Kinds))]_vars

====
